---- MODULE Spec2Model ----
(***************************************************************************)
(* Model of the PWR-Clock time-tracking bot (src/main.py).                 *)
(*                                                                         *)
(* Instants are whole seconds since an arbitrary UTC midnight.  A Python   *)
(* value that may be None is a sequence of length 0 (None) or 1 (value).   *)
(* Every command handler is one action.  What a handler does is computed   *)
(* by an operator of the same name with the suffix _res: the tables and    *)
(* files it leaves behind, the kind of text it replies with (reply) and    *)
(* the figures shown in that text (out).                                   *)
(***************************************************************************)
EXTENDS Integers, Sequences, FiniteSets, Bags, TLC

\* ------------------------------------------------------------------ bounds
MaxNow == 59400
MaxEntries == 2
MaxInflight == 2

\* --------------------------------------------------------- program constants
SecondsPerHour == 3600
IdleThresholdHours == 12

SecondsPerDay == 24 * SecondsPerHour

\* ------------------------------------------------------------- input sets
UserIds == {101, 102}
ChatTypes == {"private", "group"}
DefaultTimezone == "Africa/Lagos"
TimeZones == {"Africa/Lagos", "Asia/Tokyo"}
TimezoneArgLists == {<<>>} \cup {<<z>> : z \in TimeZones \cup {"Mars/Olympus"}}
ValidDateTexts == {"2025-04-19", "2025-04-20", "2025-04-21"}
ArgLists == {<<>>, <<"2025-04-20">>, <<"20/04/2025">>}
ButtonData == {"clockin", "clockout", "confirm_clear_logs", "cancel_clear_logs"}
StartInstants == {8 * SecondsPerHour}
Deltas == {17 * (SecondsPerHour \div 2)}
ConfirmTexts == {"yes", "no", "hello"}
\* the sets of chats a scan fails to deliver to
DeliveryFailures == SUBSET UserIds

\* the inputs of the reports: entries on and next to the midnights of the
\* zones (23:00 UTC is 00:00 in Lagos, 15:00 UTC is 00:00 in Tokyo)
ReportInstants == {-SecondsPerHour - 1, -SecondsPerHour, 15 * SecondsPerHour}
ReportDurations == {2 * SecondsPerHour}
ReportNows == {17 * SecondsPerHour}
ReportArgLists ==
    {<<>>, <<"2025-04-19">>, <<"2025-04-20">>, <<"2025-04-21">>,
     <<"2025-04-19", "2025-04-21">>, <<"2025-04-20", "2025-04-21">>,
     <<"2025-04-21", "2025-04-20">>}

VARIABLES
    now,            \* the wall clock, datetime.now(pytz.UTC)
    users,          \* dict user_id -> user record
    time_entries,   \* dict user_id -> list of entries
    key_order,      \* insertion order of the keys of time_entries
    confirm_clear,  \* context.user_data['confirm_clear'], per user
    users_file,     \* contents of users.json, None when the file is missing
    entries_file,   \* contents of time_entries.json, None when missing
    inflight,       \* handler coroutines suspended at the await of their reply
    scan            \* the idle scan suspended at a send_message, or None

vars == <<now, users, time_entries, key_order, confirm_clear,
          users_file, entries_file, inflight, scan>>

\* ------------------------------------------------------------ Python values
None == <<>>
Some(v) == <<v>>
IsNone(o) == o = <<>>
Val(o) == o[1]

\* datetime.isoformat() / datetime.fromisoformat(): the text carries the
\* calendar day and the time of day separately.
isoformat(t) == <<t \div SecondsPerDay, t % SecondsPerDay>>
fromisoformat(s) == s[1] * SecondsPerDay + s[2]

\* str(user_id) / int(key)
str(id) == <<"str", id>>
int(k) == k[2]

\* f"{hours:.2f}" of a duration in seconds, as hundredths of an hour
Hours2f(d) == (d * 100 + (SecondsPerHour \div 2)) \div SecondsPerHour

\* ----------------------------------------------------------------- helpers
Last(s) == s[Len(s)]

Registered(u) == u \in DOMAIN users

\* users[u].get('is_admin') and not users[u].get('is_employee', True)
Exempt(u) == users[u].is_admin /\ ~users[u].is_employee

HasEntries(u) == u \in DOMAIN time_entries /\ time_entries[u] # <<>>

\* the last entry exists and its out_time is None
LastOpen(u) == HasEntries(u) /\ IsNone(Last(time_entries[u]).out_time)

RECURSIVE SumLen(_, _)
SumLen(te, S) ==
    IF S = {} THEN 0
    ELSE LET x == CHOOSE y \in S : TRUE IN Len(te[x]) + SumLen(te, S \ {x})

\* number of entries in the whole ledger
TotalEntries(te) == SumLen(te, DOMAIN te)

Put(f, k, v) == [x \in (DOMAIN f) \cup {k} |-> IF x = k THEN v ELSE f[x]]

\* ------------------------------------------------------------- persistence
SerializeEntry(e) ==
    [in_time  |-> Some(isoformat(e.in_time)),
     out_time |-> IF IsNone(e.out_time) THEN None
                  ELSE Some(isoformat(Val(e.out_time)))]

\* the object json.dump writes: its members in the order of the dict's keys
SerializeEntries(te, keys) ==
    [n \in 1..Len(keys) |->
        <<str(keys[n]),
          [i \in 1..Len(te[keys[n]]) |-> SerializeEntry(te[keys[n]][i])]>>]

SerializeUsers(us) == [k \in {str(u) : u \in DOMAIN us} |-> us[int(k)]]

\* load_data(): the user table read from users.json, {} when the file is
\* missing
load_users(file) ==
    IF IsNone(file) THEN <<>>
    ELSE LET data == Val(file)
         IN  [u \in {int(k) : k \in DOMAIN data} |->
                 data[CHOOSE k \in DOMAIN data : int(k) = u]]

ParseEntry_DropOpen(e) ==
    [in_time  |-> IF IsNone(e.in_time) THEN None ELSE fromisoformat(Val(e.in_time)),
     out_time |-> IF IsNone(e.out_time) THEN e.in_time
                  ELSE Some(fromisoformat(Val(e.out_time)))]

ParseEntry(e) ==
    [in_time  |-> IF IsNone(e.in_time) THEN None ELSE fromisoformat(Val(e.in_time)),
     out_time |-> IF IsNone(e.out_time) THEN None
                  ELSE Some(fromisoformat(Val(e.out_time)))]

\* load_data(): the ledger read from time_entries.json, its keys in the order
\* of the file; {} when the file is missing
load_entries(file) ==
    IF IsNone(file) THEN [time_entries |-> <<>>, key_order |-> <<>>]
    ELSE LET data == Val(file)
             keys == [n \in DOMAIN data |-> int(data[n][1])]
         IN  [time_entries |->
                 [u \in {keys[n] : n \in DOMAIN keys} |->
                     LET entries == data[CHOOSE n \in DOMAIN keys : keys[n] = u][2]
                     IN  [i \in DOMAIN entries |-> ParseEntry(entries[i])]],
              key_order |-> keys]

\* the tables load_data() builds from the two files
load_data(ufile, efile) ==
    [users |-> load_users(ufile),
     time_entries |-> load_entries(efile).time_entries,
     key_order |-> load_entries(efile).key_order]

\* ------------------------------------------------------- handler results
\* the program's tables and files as they are now, with no reply yet
Here ==
    [users |-> users, time_entries |-> time_entries, key_order |-> key_order,
     confirm_clear |-> confirm_clear, users_file |-> users_file,
     entries_file |-> entries_file, reply |-> "", out |-> <<>>]

\* a handler that returns after replying, having written nothing
Answer(reply) == [Here EXCEPT !.reply = reply]

\* save_data() on the tables of r
save_data(r) ==
    [r EXCEPT !.users_file = Some(SerializeUsers(r.users)),
              !.entries_file = Some(SerializeEntries(r.time_entries, r.key_order))]

\* the tables and files of the handler's result become the program's
Assign(r) ==
    /\ users' = r.users
    /\ time_entries' = r.time_entries
    /\ key_order' = r.key_order
    /\ confirm_clear' = r.confirm_clear
    /\ users_file' = r.users_file
    /\ entries_file' = r.entries_file

\* The scan once the handler has written: /forceclear binds the name
\* time_entries to a new dict, and a suspended scan goes on iterating the
\* old one, which nothing writes to any more.
scan_after(r) ==
    IF r.reply = "ForceCleared" /\ ~IsNone(scan) /\ Val(scan).live
    THEN Some([Val(scan) EXCEPT !.live = FALSE,
                                 !.time_entries = time_entries,
                                 !.key_order = key_order])
    ELSE scan

\* a handler that runs to its end before another handler runs
Apply(r) ==
    /\ Assign(r)
    /\ scan' = scan_after(r)
    /\ UNCHANGED <<now, inflight>>

\* ------------------------------------------------------------------- Init
Init ==
    /\ now \in StartInstants
    /\ users = <<>>
    /\ time_entries = <<>>
    /\ key_order = <<>>
    /\ confirm_clear = [u \in UserIds |-> FALSE]
    /\ users_file = None
    /\ entries_file = None
    /\ inflight = EmptyBag
    /\ scan = None

\* the wall clock moves forward between handlers
Advance(d) ==
    /\ now + d <= MaxNow
    /\ now' = now + d
    /\ UNCHANGED <<users, time_entries, key_order, confirm_clear,
                   users_file, entries_file, inflight, scan>>

\* ------------------------------------------------------------------ /start
start_res(u, chat, inChatAdmins) ==
    LET is_admin == IF chat = "group" THEN inChatAdmins
                    ELSE Cardinality(DOMAIN users) = 0
        \* name, full_name and registered_date are written with the record
        \* and decide nothing in any handler; the record keeps the fields
        \* the handlers branch on
        rec == [timezone |-> DefaultTimezone,
                is_admin |-> is_admin,
                is_employee |-> ~is_admin]
    IN  save_data([Here EXCEPT !.users = Put(users, u, rec),
                               !.reply = IF is_admin THEN "WelcomeAdmin" ELSE "Welcome"])

start(u, chat, inChatAdmins) ==
    LET r == start_res(u, chat, inChatAdmins)
    IN  /\ Apply(r)

\* ---------------------------------------------------------------- /clockin
\* if user_id not in time_entries: time_entries[user_id] = []
WithKey(r, u) ==
    IF u \in DOMAIN r.time_entries THEN r
    ELSE [r EXCEPT !.time_entries = Put(r.time_entries, u, <<>>),
                   !.key_order = Append(r.key_order, u)]

\* time_entries[user_id].append(e); save_data()
AppendEntry(r, u, e) ==
    save_data([r EXCEPT !.time_entries[u] = Append(@, e), !.reply = "ClockedIn"])

NewEntry_Backdated == [in_time |-> now - SecondsPerHour, out_time |-> None]

\* {'in_time': datetime.now(pytz.UTC), 'out_time': None}
NewEntry == [in_time |-> now, out_time |-> None]

\* clock_in that appends without looking at the last entry
clock_in_res_NoOpenCheck(u) ==
    IF ~Registered(u) THEN Answer("PleaseRegister")
    ELSE IF Exempt(u) THEN Answer("AdminMode")
    ELSE AppendEntry(WithKey(Here, u), u, NewEntry)

\* clock_in that starts the caller's list again instead of appending to it
clock_in_res_Restart(u) ==
    IF ~Registered(u) THEN Answer("PleaseRegister")
    ELSE IF Exempt(u) THEN Answer("AdminMode")
    ELSE IF LastOpen(u) THEN Answer("AlreadyClockedIn")
    ELSE save_data([WithKey(Here, u) EXCEPT !.time_entries[u] = <<NewEntry>>,
                                            !.reply = "ClockedIn"])

\* clock_in that stamps the new entry as already closed
clock_in_res_Closed(u) ==
    IF ~Registered(u) THEN Answer("PleaseRegister")
    ELSE IF Exempt(u) THEN Answer("AdminMode")
    ELSE IF LastOpen(u) THEN Answer("AlreadyClockedIn")
    ELSE AppendEntry(WithKey(Here, u), u, [in_time |-> now, out_time |-> Some(now)])

\* clock_in that does not ask whether the caller is registered
clock_in_res_NoRegisterCheck(u) ==
    IF Registered(u) /\ Exempt(u) THEN Answer("AdminMode")
    ELSE IF LastOpen(u) THEN Answer("AlreadyClockedIn")
    ELSE AppendEntry(WithKey(Here, u), u, NewEntry)

clock_in_res(u) ==
    IF ~Registered(u) THEN Answer("PleaseRegister")
    ELSE IF Exempt(u) THEN Answer("AdminMode")
    ELSE
        LET r == WithKey(Here, u)
            entries == r.time_entries[u]
        IN  IF entries # <<>> /\ IsNone(Last(entries).out_time)
            THEN [r EXCEPT !.reply = "AlreadyClockedIn"]
            ELSE AppendEntry(r, u, NewEntry)

\* the ledger is kept within MaxEntries entries
clock_in(u) ==
    LET r == clock_in_res(u)
    IN  /\ TotalEntries(r.time_entries) <= MaxEntries
        /\ Apply(r)

\* --------------------------------------------------------------- /clockout
\* last_entry['out_time'] = t; save_data(); the reply shows the duration
CloseLast(u, t) ==
    LET n == Len(time_entries[u])
        duration == t - time_entries[u][n].in_time
    IN  [save_data([Here EXCEPT !.time_entries[u][n].out_time = Some(t),
                                !.reply = "ClockedOut"])
         EXCEPT !.out = <<duration, Hours2f(duration)>>]

\* clock_out that stamps the last entry whether or not it is already closed
clock_out_res_Overwrite(u) ==
    IF ~Registered(u) THEN Answer("PleaseRegister")
    ELSE IF Exempt(u) THEN Answer("AdminMode")
    ELSE IF ~HasEntries(u) THEN Answer("NotClockedIn")
    ELSE CloseLast(u, now)

\* clock_out that lets an admin in admin mode close a session
clock_out_res_NoExempt(u) ==
    IF ~Registered(u) THEN Answer("PleaseRegister")
    ELSE IF ~HasEntries(u) THEN Answer("NotClockedIn")
    ELSE IF ~IsNone(Last(time_entries[u]).out_time) THEN Answer("AlreadyClockedOut")
    ELSE CloseLast(u, now)

\* clock_out that measures the session from the caller's first entry
clock_out_res_FromFirst(u) ==
    IF ~Registered(u) THEN Answer("PleaseRegister")
    ELSE IF Exempt(u) THEN Answer("AdminMode")
    ELSE IF ~HasEntries(u) THEN Answer("NotClockedIn")
    ELSE IF ~IsNone(Last(time_entries[u]).out_time) THEN Answer("AlreadyClockedOut")
    ELSE [CloseLast(u, now) EXCEPT
            !.out = <<now - time_entries[u][1].in_time,
                      Hours2f(now - time_entries[u][1].in_time)>>]

clock_out_res(u) ==
    IF ~Registered(u) THEN Answer("PleaseRegister")
    ELSE IF Exempt(u) THEN Answer("AdminMode")
    ELSE IF ~HasEntries(u) THEN Answer("NotClockedIn")
    ELSE IF ~IsNone(Last(time_entries[u]).out_time) THEN Answer("AlreadyClockedOut")
    ELSE CloseLast(u, now)

clock_out(u) ==
    LET r == clock_out_res(u)
    IN  /\ Apply(r)

\* --------------------------------------------------------- dates and zones
\* A calendar date is the number of its day, day 0 being the day of instant
\* 0 (2025-04-20); date texts "%Y-%m-%d" order as their day numbers do.
\* A datetime without zone is the number of seconds from 00:00:00 of day 0.
\* The model's instants are whole seconds, so the last time of a day,
\* datetime.max.time(), is 23:59:59.

\* the zone of the host's clock, read by datetime.now() without a zone
HostTimezone == "UTC"

\* the UTC offset pytz gives the zone; none of the zones has a DST rule
utcoffset(tz) ==
    IF tz = "Africa/Lagos" THEN 1 * SecondsPerHour
    ELSE IF tz = "Asia/Tokyo" THEN 9 * SecondsPerHour
    ELSE 0

\* tz.localize(naive).astimezone(pytz.UTC)
localize(tz, naive) == naive - utcoffset(tz)

\* t.astimezone(tz), read without its zone
astimezone(tz, t) == t + utcoffset(tz)

\* datetime.strptime(text, "%Y-%m-%d").date() of a valid text
strptime(text) ==
    IF text = "2025-04-19" THEN -1
    ELSE IF text = "2025-04-20" THEN 0
    ELSE 1

\* t.astimezone(tz).strftime("%Y-%m-%d")
strftime_date(tz, t) == astimezone(tz, t) \div SecondsPerDay

\* t.astimezone(tz).strftime("%H:%M:%S")
strftime_time(tz, t) == astimezone(tz, t) % SecondsPerDay

\* datetime.now().date()
today == astimezone(HostTimezone, now) \div SecondsPerDay

\* start_date and end_date after the arguments are parsed
DateRange(args) ==
    IF Len(args) = 0 THEN <<today, today>>
    ELSE IF Len(args) = 1 THEN <<strptime(args[1]), strptime(args[1])>>
    ELSE <<strptime(args[1]), strptime(args[2])>>

\* localize(datetime.combine(start_date, datetime.min.time()))
start_datetime(tz, start_date) == localize(tz, start_date * SecondsPerDay)

\* localize(datetime.combine(end_date, datetime.max.time()))
end_datetime(tz, end_date) ==
    localize(tz, end_date * SecondsPerDay + (SecondsPerDay - 1))

\* ----------------------------------------------------------------- /status
\* the handler replies and writes nothing
\* datetime.now(pytz.UTC).replace(hour=0, minute=0, second=0, microsecond=0)
today_start == (now \div SecondsPerDay) * SecondsPerDay

\* today_total_seconds after the loop has visited entries[i..]
RECURSIVE today_total_seconds_AllEntries(_, _)
today_total_seconds_AllEntries(entries, i) ==
    IF i > Len(entries) THEN 0
    ELSE LET entry == entries[i]
             last_entry == Last(entries)
         IN  (IF ~IsNone(entry.out_time) THEN Val(entry.out_time) - entry.in_time
              ELSE IF entry = last_entry THEN now - entry.in_time
              ELSE 0)
             + today_total_seconds_AllEntries(entries, i + 1)

RECURSIVE today_total_seconds(_, _)
today_total_seconds(entries, i) ==
    IF i > Len(entries) THEN 0
    ELSE LET entry == entries[i]
             last_entry == Last(entries)
         IN  (IF entry.in_time >= today_start
              THEN IF ~IsNone(entry.out_time) THEN Val(entry.out_time) - entry.in_time
                   ELSE IF entry = last_entry THEN now - entry.in_time
                   ELSE 0
              ELSE 0)
             + today_total_seconds(entries, i + 1)

status_res(u) ==
    IF ~Registered(u) THEN Answer("PleaseRegister")
    ELSE IF Exempt(u) THEN Answer("AdminMode")
    ELSE IF ~HasEntries(u) THEN Answer("NotStarted")
    ELSE LET last_entry == Last(time_entries[u])
             total == today_total_seconds(time_entries[u], 1)
         IN  IF IsNone(last_entry.out_time)
             THEN [Answer("StatusClockedIn") EXCEPT
                      !.out = [started_at |-> Some(strftime_time(users[u].timezone, last_entry.in_time)),
                               session |-> Some(Hours2f(now - last_entry.in_time)),
                               today_total_seconds |-> total,
                               today_total_hours |-> Hours2f(total)]]
             ELSE [Answer("StatusClockedOut") EXCEPT
                      !.out = [started_at |-> None,
                               session |-> None,
                               today_total_seconds |-> total,
                               today_total_hours |-> Hours2f(total)]]

status(u) ==
    LET r == status_res(u)
    IN  /\ Apply(r)

\* ---------------------------------------------------------- /report, /team
\* the checks each handler makes before it builds its report
\* datetime.strptime(arg, "%Y-%m-%d") raises ValueError
BadDate(arg) == arg \notin ValidDateTexts

\* the try block that parses context.args
ArgsInvalid(args) ==
    IF Len(args) = 0 THEN FALSE
    ELSE IF Len(args) = 1 THEN BadDate(args[1])
    ELSE BadDate(args[1]) \/ BadDate(args[2])

\* seconds of a list of display entries
RECURSIVE SumSeconds(_)
SumSeconds(lines) ==
    IF lines = <<>> THEN 0 ELSE Head(lines).seconds + SumSeconds(Tail(lines))

\* ascending sequence of a finite set of integers
RECURSIVE sorted(_)
sorted(S) ==
    IF S = {} THEN <<>>
    ELSE LET m == CHOOSE x \in S : \A y \in S : x <= y
         IN  <<m>> \o sorted(S \ {m})

\* ------------------------------------------------ the body of a report
\* a range that leaves out the entries on its two bounds
appended_OpenRange(entries, i, lo, hi) ==
    LET entry == entries[i]
    IN  IF entry.in_time >= hi \/ entry.in_time <= lo THEN FALSE
        ELSE IF ~IsNone(entry.out_time) THEN TRUE
        ELSE entry = Last(entries)

\* one pass of the loop over the target's entries: is entry i appended to
\* entries_in_range
appended(entries, i, lo, hi) ==
    LET entry == entries[i]
    IN  IF entry.in_time > hi \/ entry.in_time < lo THEN FALSE
        ELSE IF ~IsNone(entry.out_time) THEN TRUE
        ELSE entry = Last(entries)

\* duration.total_seconds() of an entry the loop appends
duration(entry) ==
    IF ~IsNone(entry.out_time) THEN Val(entry.out_time) - entry.in_time
    ELSE now - entry.in_time

\* the display entry of an appended entry; out is None for the active mark,
\* seconds is hours * 3600
display_entry(entry, tz) ==
    [in      |-> strftime_time(tz, entry.in_time),
     out     |-> IF ~IsNone(entry.out_time)
                 THEN Some(strftime_time(tz, Val(entry.out_time)))
                 ELSE None,
     date    |-> strftime_date(tz, entry.in_time),
     seconds |-> duration(entry)]

\* entries_in_range after the loop has passed the entries from i on
RECURSIVE entries_in_range(_, _, _, _, _)
entries_in_range(entries, i, tz, lo, hi) ==
    IF i > Len(entries) THEN <<>>
    ELSE (IF appended(entries, i, lo, hi)
          THEN <<display_entry(entries[i], tz)>> ELSE <<>>)
         \o entries_in_range(entries, i + 1, tz, lo, hi)

\* a total that stops counting a session at the end of the range
RECURSIVE total_seconds_Clipped(_, _, _, _)
total_seconds_Clipped(entries, i, lo, hi) ==
    IF i > Len(entries) THEN 0
    ELSE (IF ~appended(entries, i, lo, hi) THEN 0
          ELSE IF ~IsNone(entries[i].out_time) /\ Val(entries[i].out_time) > hi
               THEN hi - entries[i].in_time
               ELSE duration(entries[i]))
         + total_seconds_Clipped(entries, i + 1, lo, hi)

\* total_seconds after the loop has passed the entries from i on
RECURSIVE total_seconds(_, _, _, _)
total_seconds(entries, i, lo, hi) ==
    IF i > Len(entries) THEN 0
    ELSE (IF appended(entries, i, lo, hi) THEN duration(entries[i]) ELSE 0)
         + total_seconds(entries, i + 1, lo, hi)

\* the dates of the lines in the order they are first met
RECURSIVE first_met(_, _)
first_met(lines, met) ==
    IF lines = <<>> THEN <<>>
    ELSE IF Head(lines).date \in met THEN first_met(Tail(lines), met)
    ELSE <<Head(lines).date>> \o first_met(Tail(lines), met \cup {Head(lines).date})

\* groups in the order of the dict, without sorted()
entries_by_date_Unsorted(lines) ==
    LET dates == first_met(lines, {})
    IN  [g \in 1..Len(dates) |->
            LET date_entries == SelectSeq(lines, LAMBDA l : l.date = dates[g])
            IN  [date |-> dates[g],
                 entries |-> date_entries,
                 date_total |-> SumSeconds(date_entries)]]

\* sorted(entries_by_date.items()) with the total of each date
entries_by_date(lines) ==
    LET dates == sorted({lines[k].date : k \in DOMAIN lines})
    IN  [g \in 1..Len(dates) |->
            LET date_entries == SelectSeq(lines, LAMBDA l : l.date = dates[g])
            IN  [date |-> dates[g],
                 entries |-> date_entries,
                 date_total |-> SumSeconds(date_entries)]]

\* a report that prints groups and a total also when nothing is in range
report_text_AlwaysTotal(target, start_date, end_date) ==
    LET user_tz == users[target].timezone
        lo == start_datetime(user_tz, start_date)
        hi == end_datetime(user_tz, end_date)
        lines == entries_in_range(time_entries[target], 1, user_tz, lo, hi)
    IN  [kind |-> "Entries",
         start_date |-> start_date, end_date |-> end_date,
         entries_in_range |-> lines,
         groups |-> entries_by_date(lines),
         total_seconds |-> total_seconds(time_entries[target], 1, lo, hi)]

\* the report of target over start_date..end_date
report_text(target, start_date, end_date) ==
    LET user_tz == users[target].timezone
        lo == start_datetime(user_tz, start_date)
        hi == end_datetime(user_tz, end_date)
        lines == entries_in_range(time_entries[target], 1, user_tz, lo, hi)
    IN  IF lines # <<>>
        THEN [kind |-> "Entries",
              start_date |-> start_date, end_date |-> end_date,
              entries_in_range |-> lines,
              groups |-> entries_by_date(lines),
              total_seconds |-> total_seconds(time_entries[target], 1, lo, hi)]
        ELSE [kind |-> "NoEntriesInPeriod",
              start_date |-> start_date, end_date |-> end_date,
              entries_in_range |-> <<>>,
              groups |-> <<>>,
              total_seconds |-> total_seconds(time_entries[target], 1, lo, hi)]

\* ------------------------------------------- the body of the team report
\* one pass of the loop over an employee's entries: is entry i counted
counted(emp_entries, i, lo, hi) ==
    LET entry == emp_entries[i]
    IN  IF entry.in_time > hi \/ entry.in_time < lo THEN FALSE
        ELSE IF ~IsNone(entry.out_time) THEN TRUE
        ELSE entry = Last(emp_entries)

\* total_seconds and daily_entries after the loop has passed the entries
\* from i on
RECURSIVE employee_totals(_, _, _, _)
employee_totals(emp_entries, i, lo, hi) ==
    IF i > Len(emp_entries) THEN [total_seconds |-> 0, daily_entries |-> 0]
    ELSE LET rest == employee_totals(emp_entries, i + 1, lo, hi)
         IN  IF counted(emp_entries, i, lo, hi)
             THEN [total_seconds |-> duration(emp_entries[i]) + rest.total_seconds,
                   daily_entries |-> 1 + rest.daily_entries]
             ELSE rest

\* rows whose active mark looks only at a last entry that is in the range
RECURSIVE employee_stats_ActiveInRange(_, _, _)
employee_stats_ActiveInRange(keys, lo, hi) ==
    IF keys = <<>> THEN <<>>
    ELSE LET emp_id == Head(keys)
             emp_entries == time_entries[emp_id]
             rest == employee_stats_ActiveInRange(Tail(keys), lo, hi)
         IN  IF emp_id \notin DOMAIN users \/ ~users[emp_id].is_employee THEN rest
             ELSE LET t == employee_totals(emp_entries, 1, lo, hi)
                  IN  IF t.total_seconds > 0
                      THEN <<[user_id |-> emp_id,
                              seconds |-> t.total_seconds,
                              entries |-> t.daily_entries,
                              active  |-> /\ emp_entries # <<>>
                                          /\ IsNone(Last(emp_entries).out_time)
                                          /\ counted(emp_entries, Len(emp_entries), lo, hi)]>>
                           \o rest
                      ELSE rest

\* employee_stats before the sort, for the keys of the ledger from keys on
RECURSIVE employee_stats(_, _, _)
employee_stats(keys, lo, hi) ==
    IF keys = <<>> THEN <<>>
    ELSE LET emp_id == Head(keys)
             emp_entries == time_entries[emp_id]
             rest == employee_stats(Tail(keys), lo, hi)
         IN  IF emp_id \notin DOMAIN users \/ ~users[emp_id].is_employee THEN rest
             ELSE LET t == employee_totals(emp_entries, 1, lo, hi)
                  IN  IF t.total_seconds > 0
                      THEN <<[user_id |-> emp_id,
                              seconds |-> t.total_seconds,
                              entries |-> t.daily_entries,
                              active  |-> emp_entries # <<>>
                                          /\ IsNone(Last(emp_entries).out_time)]>>
                           \o rest
                      ELSE rest

\* an insertion that puts x before the elements with the same hours
RECURSIVE insert_by_hours_BeforeEqual(_, _)
insert_by_hours_BeforeEqual(stats, x) ==
    IF stats = <<>> THEN <<x>>
    ELSE IF Head(stats).seconds > x.seconds
         THEN <<Head(stats)>> \o insert_by_hours_BeforeEqual(Tail(stats), x)
         ELSE <<x>> \o stats

\* stats with x put behind every element whose hours are not below x's
RECURSIVE insert_by_hours(_, _)
insert_by_hours(stats, x) ==
    IF stats = <<>> THEN <<x>>
    ELSE IF Head(stats).seconds >= x.seconds
         THEN <<Head(stats)>> \o insert_by_hours(Tail(stats), x)
         ELSE <<x>> \o stats

\* employee_stats.sort(key=lambda x: x['hours'], reverse=True): a stable
\* sort, equal hours stay in the order they had
RECURSIVE sort_by_hours(_, _)
sort_by_hours(stats, done) ==
    IF stats = <<>> THEN done
    ELSE sort_by_hours(Tail(stats), insert_by_hours(done, Head(stats)))

\* the team report the admin gets over start_date..end_date
team_report_text(admin, start_date, end_date) ==
    LET user_tz == users[admin].timezone
        lo == start_datetime(user_tz, start_date)
        hi == end_datetime(user_tz, end_date)
        stats == sort_by_hours(employee_stats(key_order, lo, hi), <<>>)
    IN  [kind |-> IF stats # <<>> THEN "Employees" ELSE "NoEntriesInPeriod",
         start_date |-> start_date, end_date |-> end_date,
         employee_stats |-> stats,
         total_team_seconds |-> SumSeconds(stats)]

team_report_res(u, args) ==
    IF ~Registered(u) THEN Answer("PleaseRegister")
    ELSE IF ~users[u].is_admin THEN Answer("AdminsOnly")
    ELSE IF ArgsInvalid(args) THEN Answer("InvalidDateFormat")
    ELSE [Answer("TeamReport") EXCEPT
            !.out = team_report_text(u, DateRange(args)[1], DateRange(args)[2])]

team_report(u, args) ==
    LET r == team_report_res(u, args)
    IN  /\ Apply(r)

\* report that goes to the ledger before asking whether the caller is registered
report_res_NoRegisterCheck(u, args) ==
    IF ~HasEntries(u) THEN Answer("NoEntries")
    ELSE IF ArgsInvalid(args) THEN Answer("InvalidDateFormat")
    ELSE Answer("Report")

report_res(u, args) ==
    IF ~Registered(u) THEN Answer("PleaseRegister")
    ELSE IF ~users[u].is_employee /\ ~users[u].is_admin THEN Answer("OnlyEmployees")
    ELSE IF users[u].is_admin /\ ~users[u].is_employee THEN team_report_res(u, args)
    ELSE IF ~HasEntries(u) THEN Answer("NoEntries")
    ELSE IF ArgsInvalid(args) THEN Answer("InvalidDateFormat")
    ELSE [Answer("Report") EXCEPT
            !.out = report_text(u, DateRange(args)[1], DateRange(args)[2])]

report(u, args) ==
    LET r == report_res(u, args)
    IN  /\ Apply(r)

\* ------------------------------------------------------------- /togglemode
\* a toggle that does not ask whether the caller is an admin
toggle_employee_status_res_AnyUser(u) ==
    IF ~Registered(u) THEN Answer("PleaseRegister")
    ELSE
        LET current_status == users[u].is_employee
        IN  save_data([Here EXCEPT
                !.users = [users EXCEPT ![u].is_employee = ~current_status],
                !.reply = IF ~current_status THEN "EmployeeMode" ELSE "AdminMode"])

toggle_employee_status_res_ClosesSession(u) ==
    IF ~Registered(u) THEN Answer("PleaseRegister")
    ELSE IF ~users[u].is_admin THEN Answer("AdminsOnly")
    ELSE
        LET current_status == users[u].is_employee
            entries == IF u \in DOMAIN time_entries THEN time_entries[u] ELSE <<>>
            closing == current_status /\ entries # <<>> /\ IsNone(Last(entries).out_time)
        IN  save_data([Here EXCEPT
                !.users = [users EXCEPT ![u].is_employee = ~current_status],
                !.time_entries =
                    IF closing
                    THEN [time_entries EXCEPT ![u][Len(entries)].out_time = Some(now)]
                    ELSE time_entries,
                !.reply = IF ~current_status THEN "EmployeeMode" ELSE "AdminMode"])

toggle_employee_status_res(u) ==
    IF ~Registered(u) THEN Answer("PleaseRegister")
    ELSE IF ~users[u].is_admin THEN Answer("AdminsOnly")
    ELSE
        LET current_status == users[u].is_employee
        IN  save_data([Here EXCEPT
                !.users = [users EXCEPT ![u].is_employee = ~current_status],
                !.reply = IF ~current_status THEN "EmployeeMode" ELSE "AdminMode"])

toggle_employee_status(u) ==
    LET r == toggle_employee_status_res(u)
    IN  /\ Apply(r)

\* --------------------------------------------------------------- /timezone
set_timezone_res(u, args) ==
    IF ~Registered(u) THEN Answer("PleaseRegister")
    ELSE IF Len(args) = 0 THEN Answer("CurrentTimezone")
    ELSE IF args[1] \in TimeZones THEN
        save_data([Here EXCEPT !.users = [users EXCEPT ![u].timezone = args[1]],
                               !.reply = "TimezoneUpdated"])
    ELSE Answer("UnknownTimezone")

set_timezone(u, args) ==
    LET r == set_timezone_res(u, args)
    IN  /\ Apply(r)

\* -------------------------------------------------------------- /clearlogs
\* for uid in time_entries: time_entries[uid] = []
Emptied(te) == [x \in DOMAIN te |-> <<>>]

\* if chat.type == "private": users[user_id]['is_admin'] = True; save_data()
PromoteInPrivate(u, chat) ==
    IF chat = "private"
    THEN save_data([Here EXCEPT !.users = [users EXCEPT ![u].is_admin = TRUE]])
    ELSE Here

clear_logs_res(u, chat) ==
    IF ~Registered(u) THEN Answer("PleaseRegister")
    ELSE
        LET r == PromoteInPrivate(u, chat)
        IN  IF ~r.users[u].is_admin THEN [r EXCEPT !.reply = "AdminsOnly"]
            ELSE IF confirm_clear[u] THEN
                save_data([r EXCEPT
                    !.time_entries = Emptied(time_entries),
                    !.confirm_clear = [confirm_clear EXCEPT ![u] = FALSE],
                    !.reply = "Cleared"])
            ELSE
                [r EXCEPT !.confirm_clear = [confirm_clear EXCEPT ![u] = TRUE],
                          !.reply = "ConfirmPrompt"]

clear_logs(u, chat) ==
    LET r == clear_logs_res(u, chat)
    IN  /\ Apply(r)

\* ------------------------------------------------------------- /forceclear
force_clear_logs_res_KeepsMemory(u, chat) ==
    IF ~Registered(u) THEN Answer("KeyError")
    ELSE
        LET r == PromoteInPrivate(u, chat)
        IN  IF ~r.users[u].is_admin THEN [r EXCEPT !.reply = "AdminsOnly"]
            ELSE IF ~IsNone(r.entries_file) THEN
                [r EXCEPT !.entries_file = None,
                          !.reply = "ForceCleared"]
            ELSE [r EXCEPT !.reply = "NoEntriesFile"]

force_clear_logs_res(u, chat) ==
    \* users[user_id] raises KeyError before anything is written
    IF ~Registered(u) THEN Answer("KeyError")
    ELSE
        LET r == PromoteInPrivate(u, chat)
        IN  IF ~r.users[u].is_admin THEN [r EXCEPT !.reply = "AdminsOnly"]
            ELSE IF ~IsNone(r.entries_file) THEN
                [r EXCEPT !.entries_file = None,
                          !.time_entries = <<>>,
                          !.key_order = <<>>,
                          !.reply = "ForceCleared"]
            ELSE [r EXCEPT !.reply = "NoEntriesFile"]

force_clear_logs(u, chat) ==
    LET r == force_clear_logs_res(u, chat)
    IN  /\ Apply(r)

\* ------------------------------------------- a text that is not a command
YesTexts == {"yes", "y", "confirm", "yes, clear all logs", "yes, clear logs"}
NoTexts == {"no", "n", "cancel", "no, cancel"}

handle_text_confirmation_res(u, text) ==
    IF ~Registered(u) THEN Answer("NoReply")
    ELSE IF ~users[u].is_admin THEN Answer("NoReply")
    ELSE IF ~confirm_clear[u] THEN Answer("NoReply")
    ELSE IF text \in YesTexts THEN
        save_data([Here EXCEPT
            !.time_entries = Emptied(time_entries),
            !.confirm_clear = [confirm_clear EXCEPT ![u] = FALSE],
            !.reply = "Cleared"])
    ELSE IF text \in NoTexts THEN
        [Here EXCEPT !.confirm_clear = [confirm_clear EXCEPT ![u] = FALSE],
                     !.reply = "Cancelled"]
    ELSE Answer("NoReply")

handle_text_confirmation(u, text) ==
    LET r == handle_text_confirmation_res(u, text)
    IN  /\ Apply(r)

\* --------------------------------------------------------------- idle scan
\* the last entry of the list is open and has been open for longer than the
\* threshold at the instant t
idle_AtThreshold(entries, t) ==
    /\ entries # <<>>
    /\ IsNone(Last(entries).out_time)
    /\ t - Last(entries).in_time >= IdleThresholdHours * SecondsPerHour

idle(entries, t) ==
    /\ entries # <<>>
    /\ IsNone(Last(entries).out_time)
    /\ t - Last(entries).in_time > IdleThresholdHours * SecondsPerHour

\* The reminders of one scan, in the order of the scan. failing holds the
\* chats for which send_message raises; a user missing from the user table
\* raises before the message is sent. Either error is logged and the loop
\* goes on with the next key.
RECURSIVE idle_reminders_AbortOnFailure(_, _, _, _, _)
idle_reminders_AbortOnFailure(us, te, t, keys, failing) ==
    IF keys = <<>> THEN <<>>
    ELSE LET user_id == Head(keys)
             entries == te[user_id]
             known == user_id \in DOMAIN us
             line == [user_id   |-> user_id,
                      duration  |-> t - Last(entries).in_time,
                      since     |-> IF known
                                    THEN Some(astimezone(us[user_id].timezone, Last(entries).in_time))
                                    ELSE None,
                      attempted |-> known,
                      delivered |-> known /\ user_id \notin failing]
         IN  IF ~idle(entries, t)
             THEN idle_reminders_AbortOnFailure(us, te, t, Tail(keys), failing)
             ELSE IF line.delivered
             THEN <<line>> \o idle_reminders_AbortOnFailure(us, te, t, Tail(keys), failing)
             ELSE <<line>>

RECURSIVE idle_reminders(_, _, _, _, _)
idle_reminders(us, te, t, keys, failing) ==
    IF keys = <<>> THEN <<>>
    ELSE LET user_id == Head(keys)
             entries == te[user_id]
             known == user_id \in DOMAIN us
             line == [user_id   |-> user_id,
                      duration  |-> t - Last(entries).in_time,
                      since     |-> IF known
                                    THEN Some(astimezone(us[user_id].timezone, Last(entries).in_time))
                                    ELSE None,
                      attempted |-> known,
                      delivered |-> known /\ user_id \notin failing]
         IN  (IF idle(entries, t) THEN <<line>> ELSE <<>>)
                 \o idle_reminders(us, te, t, Tail(keys), failing)

\* the hourly job
check_idle_users_res_ClocksOut(failing) ==
    LET reminders == idle_reminders(users, time_entries, now, key_order, failing)
    IN  [Answer("Scanned") EXCEPT
            !.out = reminders,
            !.time_entries =
                [u \in DOMAIN time_entries |->
                    IF \E k \in DOMAIN reminders : reminders[k].user_id = u
                    THEN [time_entries[u] EXCEPT
                             ![Len(time_entries[u])].out_time = Some(now)]
                    ELSE time_entries[u]]]

check_idle_users_res(failing) ==
    [Answer("Scanned") EXCEPT
        !.out = idle_reminders(users, time_entries, now, key_order, failing)]

check_idle_users(failing) ==
    LET r == check_idle_users_res(failing)
    IN  /\ Apply(r)

\* /checkidle
check_idle_command_res(u, failing) ==
    IF ~Registered(u) \/ ~users[u].is_admin THEN Answer("AdminsOnly")
    ELSE [check_idle_users_res(failing) EXCEPT !.reply = "IdleCheckCompleted"]

check_idle_command(u, failing) ==
    LET r == check_idle_command_res(u, failing)
    IN  /\ Apply(r)

\* ---------------------------------------------------------- inline buttons
\* the chat is the one that holds the message the button is attached to
button_handler_res(u, data, chat) ==
    IF ~Registered(u) THEN Answer("PleaseRegister")
    ELSE IF data = "clockin" THEN clock_in_res(u)
    ELSE IF data = "clockout" THEN clock_out_res(u)
    ELSE IF data = "confirm_clear_logs" THEN
        IF ~users[u].is_admin THEN Answer("AdminsOnly") ELSE clear_logs_res(u, chat)
    ELSE IF data = "cancel_clear_logs" THEN
        IF ~users[u].is_admin THEN Answer("AdminsOnly") ELSE Answer("Cancelled")
    ELSE Answer("NoReply")

button_handler(u, data, chat) ==
    LET r == button_handler_res(u, data, chat)
    IN  /\ TotalEntries(r.time_entries) <= MaxEntries
        /\ Apply(r)

Next ==
    \/ \E d \in Deltas : Advance(d)
    \/ \E u \in UserIds, c \in ChatTypes, a \in BOOLEAN : start(u, c, a)
    \/ \E u \in UserIds : clock_in(u)
    \/ \E u \in UserIds : clock_out(u)
    \/ \E u \in UserIds : status(u)
    \/ \E u \in UserIds, args \in ArgLists : report(u, args)
    \/ \E u \in UserIds, args \in ArgLists : team_report(u, args)
    \/ \E u \in UserIds : toggle_employee_status(u)
    \/ \E u \in UserIds, args \in TimezoneArgLists : set_timezone(u, args)
    \/ \E u \in UserIds, c \in ChatTypes : clear_logs(u, c)
    \/ \E u \in UserIds, c \in ChatTypes : force_clear_logs(u, c)
    \/ \E u \in UserIds, t \in ConfirmTexts : handle_text_confirmation(u, t)
    \/ \E failing \in DeliveryFailures : check_idle_users(failing)
    \/ \E u \in UserIds, failing \in DeliveryFailures : check_idle_command(u, failing)
    \/ \E u \in UserIds, b \in ButtonData, c \in ChatTypes : button_handler(u, b, c)

Spec == Init /\ [][Next]_vars

\* ------------------------------------------- the reports of a started bot
\* The tables as load_data() builds them from a pair of files: two users,
\* the first an admin, and a ledger of the entries the files held.
LoadedEntries ==
    UNION {{[in_time |-> t, out_time |-> o] :
                o \in {None} \cup {Some(t + d) : d \in ReportDurations}} :
           t \in ReportInstants}

\* the lists of at most n loaded entries
LoadedLists(n) == UNION {[1..k -> LoadedEntries] : k \in 0..n}

FirstUser == CHOOSE u \in UserIds : \A v \in UserIds : u <= v

InitReport ==
    /\ now \in ReportNows
    /\ \E zone \in [UserIds -> TimeZones], employee \in BOOLEAN :
        users = [u \in UserIds |->
                    [timezone |-> zone[u],
                     is_admin |-> u = FirstUser,
                     is_employee |-> u # FirstUser \/ employee]]
    /\ \E first \in LoadedLists(MaxEntries) :
        \E others \in LoadedLists(MaxEntries - Len(first)) :
            time_entries = [u \in UserIds |-> IF u = FirstUser THEN first ELSE others]
    /\ key_order \in {k \in [1..Cardinality(UserIds) -> UserIds] :
                        \A i, j \in DOMAIN k : i # j => k[i] # k[j]}
    /\ confirm_clear = [u \in UserIds |-> FALSE]
    /\ users_file = Some(SerializeUsers(users))
    /\ entries_file = Some(SerializeEntries(time_entries, key_order))
    /\ inflight = EmptyBag
    /\ scan = None

NextReport ==
    \/ \E u \in UserIds, args \in ReportArgLists : report(u, args)
    \/ \E u \in UserIds, args \in ReportArgLists : team_report(u, args)

SpecReport == InitReport /\ [][NextReport]_vars

\* ------------------------- the idle scan and the status of a started bot
\* The tables as load_data() builds them when the bot starts in the morning
\* with sessions of the night before in its files: sessions that began 13
\* hours, 12 hours and a second, 12 hours and 11 hours before the start.
IdleInstants ==
    UNION {{s - (IdleThresholdHours + 1) * SecondsPerHour,
            s - IdleThresholdHours * SecondsPerHour - 1,
            s - IdleThresholdHours * SecondsPerHour,
            s - (IdleThresholdHours - 1) * SecondsPerHour} : s \in StartInstants}

IdleEntries ==
    UNION {{[in_time |-> t, out_time |-> o] :
                o \in {None, Some(t + SecondsPerHour)}} :
           t \in IdleInstants}

\* the lists of at most n sessions as clock_in and clock_out leave them: each
\* session but the last is closed, and the next one begins after it
IdleLists(n) ==
    {l \in UNION {[1..k -> IdleEntries] : k \in 0..n} :
        \A i \in 1..(Len(l) - 1) :
            /\ ~IsNone(l[i].out_time)
            /\ l[i + 1].in_time >= Val(l[i].out_time)}

InitIdle ==
    /\ now \in StartInstants
    /\ \E employee \in BOOLEAN :
        users = [u \in UserIds |->
                    [timezone |-> DefaultTimezone, is_admin |-> u = FirstUser,
                     is_employee |-> u # FirstUser \/ employee]]
    /\ \E first \in IdleLists(MaxEntries) :
        \E others \in IdleLists(MaxEntries - Len(first)) :
            time_entries = [u \in UserIds |-> IF u = FirstUser THEN first ELSE others]
    /\ key_order \in {k \in [1..Cardinality(UserIds) -> UserIds] :
                        \A i, j \in DOMAIN k : i # j => k[i] # k[j]}
    /\ confirm_clear = [u \in UserIds |-> FALSE]
    /\ users_file = Some(SerializeUsers(users))
    /\ entries_file = Some(SerializeEntries(time_entries, key_order))
    /\ inflight = EmptyBag
    /\ scan = None

\* the hourly job, the admin's /checkidle, and the handlers of the users who
\* were at work overnight
NextIdle ==
    \/ \E d \in Deltas : Advance(d)
    \/ \E u \in UserIds : clock_in(u)
    \/ \E u \in UserIds : status(u)
    \/ \E u \in UserIds, args \in TimezoneArgLists : set_timezone(u, args)
    \/ \E failing \in DeliveryFailures : check_idle_users(failing)
    \/ \E u \in UserIds, failing \in DeliveryFailures : check_idle_command(u, failing)
    \/ \E u \in UserIds : clock_out(u)

SpecIdle == InitIdle /\ [][NextIdle]_vars

\* ------------------------------ coroutines that interleave at their awaits
\* Handlers and the idle scan are coroutines of one event loop: a coroutine
\* runs alone from one await to the next.  Each handler below awaits nothing
\* but the sending of its reply, which is the last thing it does; the scan awaits
\* send_message inside its loop over time_entries.items().

\* the commands arrive in the group chat of the team
GroupChat == "group"

\* the handlers that write the ledger
Handlers == {"clock_in", "clock_out", "force_clear_logs"}

\* a clock_in that awaited between its check and its append: it appends
\* although a clock_in of the same user that passed the same check is in
\* flight
first_segment_AwaitsBeforeAppend(h, u, chat) ==
    IF h = "clock_in"
    THEN IF \E task \in BagToSet(inflight) :
                /\ task.handler = "clock_in"
                /\ task.user = u
                /\ task.reply = "ClockedIn"
         THEN clock_in_res_NoOpenCheck(u)
         ELSE clock_in_res(u)
    ELSE IF h = "clock_out" THEN clock_out_res(u)
    ELSE force_clear_logs_res(u, chat)

\* what a handler does from its first line to the await of its reply
first_segment(h, u, chat) ==
    IF h = "clock_in" THEN clock_in_res(u)
    ELSE IF h = "clock_out" THEN clock_out_res(u)
    ELSE force_clear_logs_res(u, chat)

\* the coroutine as it waits for its reply to be sent: index is the position
\* of the entry it appended or closed, 0 when it wrote no entry
Suspended(h, u, r) ==
    [handler |-> h, user |-> u, reply |-> r.reply,
     index |-> IF r.reply \in {"ClockedIn", "ClockedOut"}
               THEN Len(r.time_entries[u]) ELSE 0]

\* the replies of these handlers
Replies ==
    {"PleaseRegister", "AdminMode", "AlreadyClockedIn", "ClockedIn",
     "NotClockedIn", "AlreadyClockedOut", "ClockedOut", "AdminsOnly",
     "ForceCleared", "NoEntriesFile"}

Tasks == [handler : Handlers, user : UserIds, reply : Replies, index : 0..MaxEntries]

\* the dict the scan iterates: the one time_entries names, or, once
\* /forceclear has bound the name to a new dict, the old one as it was left
IterEntries(sc) == IF sc.live THEN time_entries ELSE sc.time_entries
IterKeys(sc) == IF sc.live THEN key_order ELSE sc.key_order

\* the first position after pos whose user the scan sends a reminder to, 0
\* when the loop ends without another one
RECURSIVE next_reminder(_, _, _)
next_reminder(te, keys, pos) ==
    IF pos >= Len(keys) THEN 0
    ELSE IF idle(te[keys[pos + 1]], now) /\ keys[pos + 1] \in DOMAIN users
         THEN pos + 1
         ELSE next_reminder(te, keys, pos + 1)

\* a scan that does not notice that the dict has grown
scan_continue_NoSizeCheck(sc) ==
    LET k == next_reminder(IterEntries(sc), IterKeys(sc), sc.pos)
    IN  IF k = 0 THEN None
        ELSE Some([sc EXCEPT !.pos = k, !.status = "sending"])

\* The loop goes on from position sc.pos to its next await.  The iterator
\* raises RuntimeError, outside the try of the loop body, when the dict has
\* not the size it had when the loop began.
scan_continue(sc) ==
    IF Len(IterKeys(sc)) # sc.size
    THEN Some([sc EXCEPT !.status = "RuntimeError"])
    ELSE LET k == next_reminder(IterEntries(sc), IterKeys(sc), sc.pos)
         IN  IF k = 0 THEN None
             ELSE Some([sc EXCEPT !.pos = k, !.status = "sending"])

\* the scan is suspended at the send_message of a reminder
Sending == ~IsNone(scan) /\ Val(scan).status = "sending"

\* a handler runs to the await of its reply
begin(h, u, chat) ==
    LET r == first_segment(h, u, chat)
    IN  /\ BagCardinality(inflight) < MaxInflight
        /\ TotalEntries(r.time_entries) <= MaxEntries
        /\ Assign(r)
        \* a handler that raised is not waiting for a reply
        /\ inflight' = IF r.reply \in Replies
                       THEN inflight (+) SetToBag({Suspended(h, u, r)})
                       ELSE inflight
        /\ scan' = scan_after(r)
        /\ UNCHANGED now

\* the reply of a suspended handler is sent, and the handler returns
deliver(task) ==
    /\ BagIn(task, inflight)
    /\ inflight' = inflight (-) SetToBag({task})
    /\ UNCHANGED <<now, users, time_entries, key_order, confirm_clear,
                   users_file, entries_file, scan>>

\* the job queue starts the scan, which runs to its first send_message
scan_start ==
    /\ ~Sending
    /\ scan' = scan_continue([live |-> TRUE, time_entries |-> <<>>,
                              key_order |-> <<>>, size |-> Len(key_order),
                              pos |-> 0, status |-> "iterating"])
    /\ UNCHANGED <<now, users, time_entries, key_order, confirm_clear,
                   users_file, entries_file, inflight>>

\* send_message returns or raises into the except of the loop body, and the
\* loop goes on
scan_resume ==
    /\ Sending
    /\ scan' = scan_continue(Val(scan))
    /\ UNCHANGED <<now, users, time_entries, key_order, confirm_clear,
                   users_file, entries_file, inflight>>

\* the sessions the files of a started bot may hold for a user: none, one
\* open since the evening before, or one closed then
AsyncLists ==
    {l \in IdleLists(1) :
        \A i \in DOMAIN l :
            \A s \in StartInstants :
                l[i].in_time = s - (IdleThresholdHours + 1) * SecondsPerHour}

\* the orders in which a ledger can hold keys of some of the users
KeyOrders ==
    {k \in UNION {[1..n -> UserIds] : n \in 0..Cardinality(UserIds)} :
        \A i, j \in DOMAIN k : i # j => k[i] # k[j]}

InitAsync ==
    /\ now \in StartInstants
    /\ users = [u \in UserIds |->
                    [timezone |-> DefaultTimezone, is_admin |-> u = FirstUser,
                     is_employee |-> TRUE]]
    /\ key_order \in KeyOrders
    /\ time_entries \in {te \in [{key_order[n] : n \in DOMAIN key_order} -> AsyncLists] :
                            TotalEntries(te) <= MaxEntries}
    /\ confirm_clear = [u \in UserIds |-> FALSE]
    /\ users_file = Some(SerializeUsers(users))
    /\ entries_file = Some(SerializeEntries(time_entries, key_order))
    /\ inflight = EmptyBag
    /\ scan = None

\* handlers that interleave at the await of their replies
NextAsync ==
    \/ \E h \in Handlers, u \in UserIds : begin(h, u, GroupChat)
    \/ \E task \in Tasks : deliver(task)

SpecAsync == InitAsync /\ [][NextAsync]_vars

\* the scan of the job queue, and the handlers that run, one after the
\* other, while it is suspended
NextScan ==
    \/ scan_start
    \/ scan_resume
    \/ \E u \in UserIds : clock_in(u)
    \/ \E u \in UserIds : clock_out(u)
    \/ \E u \in UserIds : force_clear_logs(u, GroupChat)

SpecScan == InitAsync /\ [][NextScan]_vars

\* ------------------------------------------------------------------ claims
Entries(u) == IF u \in DOMAIN time_entries THEN time_entries[u] ELSE <<>>

Tracked(u) == Registered(u) /\ ~Exempt(u)

\* the ledgers te and te2 hold the same entries for everyone but u
SameForOthers(te, te2, u) ==
    \A v \in (DOMAIN te \cup DOMAIN te2) \ {u} :
        v \in DOMAIN te /\ v \in DOMAIN te2 /\ te[v] = te2[v]

\* C1: in every reachable state each user's list has at most one entry with
\* no out_time, and such an entry is the last of the list.
C1_OneOpenEntryAndItIsLast ==
    \A u \in DOMAIN time_entries :
        \A i \in 1..Len(time_entries[u]) :
            IsNone(time_entries[u][i].out_time) => i = Len(time_entries[u])

\* a user with a closed entry followed by an open one
C1_Witness ==
    \E u \in DOMAIN time_entries :
        /\ Len(time_entries[u]) = 2
        /\ ~IsNone(time_entries[u][1].out_time)
        /\ IsNone(time_entries[u][2].out_time)

\* C2: clock_in by a registered, non-exempt user whose last entry is open
\* answers AlreadyClockedIn and leaves the whole ledger as it was.
C2_ClockInWhileOpenIsRefused ==
    \A u \in UserIds :
        (Tracked(u) /\ LastOpen(u)) =>
            /\ clock_in_res(u).reply = "AlreadyClockedIn"
            /\ clock_in_res(u).time_entries = time_entries
            /\ clock_in_res(u).key_order = key_order

\* a clocked-in user whose clock_in is refused while another user has entries
C2_Witness ==
    \E u \in UserIds, v \in UserIds :
        /\ u # v
        /\ Tracked(u) /\ LastOpen(u)
        /\ HasEntries(v)
        /\ clock_in_res(u).reply = "AlreadyClockedIn"

\* C3: clock_in by a registered, non-exempt user with no open entry appends
\* exactly one entry [in_time = now, out_time absent] at the end of that
\* user's list; the user's earlier entries and every other user's entries stay.
C3_ClockInAppendsOneOpenEntry ==
    \A u \in UserIds :
        (Tracked(u) /\ ~LastOpen(u)) =>
            LET r == clock_in_res(u)
            IN  /\ r.reply = "ClockedIn"
                /\ u \in DOMAIN r.time_entries
                /\ r.time_entries[u] =
                        Append(Entries(u), [in_time |-> now, out_time |-> None])
                /\ SameForOthers(time_entries, r.time_entries, u)

\* a user whose newest entry was appended now, after an earlier closed entry
C3_Witness ==
    \E u \in DOMAIN time_entries :
        /\ Len(time_entries[u]) = 2
        /\ ~IsNone(time_entries[u][1].out_time)
        /\ time_entries[u][2] = [in_time |-> now, out_time |-> None]
        /\ time_entries[u][1].in_time < now

\* C4: clock_out by a registered, non-exempt user with no entries, or whose
\* last entry is already closed, is refused and leaves the ledger as it was,
\* so the out_time of the closed last entry is not overwritten.
C4_ClockOutWithoutSessionIsRefused ==
    \A u \in UserIds :
        (Tracked(u) /\ ~LastOpen(u)) =>
            /\ clock_out_res(u).reply =
                    IF HasEntries(u) THEN "AlreadyClockedOut" ELSE "NotClockedIn"
            /\ clock_out_res(u).time_entries = time_entries

\* a user whose last entry was closed at an earlier instant than now
C4_Witness ==
    \E u \in UserIds :
        /\ Tracked(u) /\ HasEntries(u)
        /\ ~IsNone(Last(time_entries[u]).out_time)
        /\ Val(Last(time_entries[u]).out_time) < now
        /\ clock_out_res(u).reply = "AlreadyClockedOut"

\* C5: clock_out by a registered, non-exempt user whose last entry is open
\* sets out_time = now on that entry and on nothing else, and reports
\* out_time - in_time; a session from 09:00 to 17:30 is reported as 8.50 hours.
C5_ClockOutClosesLastAndReportsDelta ==
    \A u \in UserIds :
        (Tracked(u) /\ LastOpen(u)) =>
            LET r == clock_out_res(u)
                n == Len(time_entries[u])
                e == time_entries[u][n]
            IN  /\ r.reply = "ClockedOut"
                /\ DOMAIN r.time_entries = DOMAIN time_entries
                /\ Len(r.time_entries[u]) = n
                /\ r.time_entries[u][n] = [in_time |-> e.in_time, out_time |-> Some(now)]
                /\ \A i \in 1..(n - 1) : r.time_entries[u][i] = time_entries[u][i]
                /\ SameForOthers(time_entries, r.time_entries, u)
                /\ r.out[1] = Val(r.time_entries[u][n].out_time) - e.in_time
                /\ r.out[2] = Hours2f(r.out[1])
                /\ (e.in_time = 8 * SecondsPerHour /\ now = 16 * SecondsPerHour + 1800)
                        => r.out[2] = 850

\* a user in Africa/Lagos (UTC+1) who clocked in at 09:00 local, at 17:30 local
C5_Witness ==
    \E u \in UserIds :
        /\ Tracked(u) /\ LastOpen(u)
        /\ users[u].timezone = "Africa/Lagos"
        /\ Last(time_entries[u]).in_time = 8 * SecondsPerHour
        /\ now = 16 * SecondsPerHour + 1800
        /\ clock_out_res(u).out = <<30600, 850>>

\* C6: for a user with is_admin and not is_employee, clock_in and clock_out
\* both answer with the admin-mode note and write nothing, whatever that
\* user's entries are.
C6_ExemptAdminIsNotTracked ==
    \A u \in UserIds :
        (Registered(u) /\ Exempt(u)) =>
            /\ clock_in_res(u) = Answer("AdminMode")
            /\ clock_out_res(u) = Answer("AdminMode")

\* an admin in admin mode who still has an open entry
C6_Witness ==
    \E u \in UserIds :
        /\ Registered(u) /\ Exempt(u) /\ LastOpen(u)
        /\ clock_out_res(u).reply = "AdminMode"

\* a step taken by one of the handlers that can clear the ledger
IsClearStep ==
    \E u \in UserIds, c \in ChatTypes :
        \/ clear_logs(u, c)
        \/ force_clear_logs(u, c)
        \/ button_handler(u, "confirm_clear_logs", c)
        \/ \E t \in ConfirmTexts : handle_text_confirmation(u, t)

IsClockOutStep(u) == clock_out(u) \/ \E c \in ChatTypes : button_handler(u, "clockout", c)

\* C7: a step that changes the ledger and is not an administrative clear
\* keeps every entry in its place with its in_time, and changes an out_time
\* only from absent to a value, which only clock_out does.
C7_EntriesAreAppendOnly ==
    [][ \/ time_entries' = time_entries
        \/ IsClearStep
        \/ \A u \in DOMAIN time_entries :
                /\ u \in DOMAIN time_entries'
                /\ Len(time_entries'[u]) >= Len(time_entries[u])
                /\ \A i \in 1..Len(time_entries[u]) :
                    LET e == time_entries[u][i]
                        e2 == time_entries'[u][i]
                    IN  /\ e2.in_time = e.in_time
                        /\ e2.out_time # e.out_time =>
                                /\ IsNone(e.out_time)
                                /\ e2.out_time = Some(now)
                                /\ IsClockOutStep(u)
      ]_vars

\* a user with two closed entries: both were appended, both were closed
C7_Witness ==
    \E u \in DOMAIN time_entries :
        /\ Len(time_entries[u]) = 2
        /\ ~IsNone(time_entries[u][1].out_time)
        /\ ~IsNone(time_entries[u][2].out_time)

\* C8: every user id that owns an entry is a key of the user table.
C8_EntriesBelongToRegisteredUsers ==
    \A u \in DOMAIN time_entries : time_entries[u] # <<>> => u \in DOMAIN users

\* a user owns entries while another user id is not registered
C8_Witness ==
    \E u \in UserIds, v \in UserIds : HasEntries(u) /\ ~Registered(v)

\* C9: clock_in, clock_out, status and report by an unregistered caller answer
\* with the register redirect, and leave the user table and the ledger alone.
C9_UnregisteredCallerIsRedirected ==
    \A u \in UserIds :
        ~Registered(u) =>
            \A r \in {clock_in_res(u), clock_out_res(u), status_res(u)}
                        \cup {report_res(u, a) : a \in ArgLists} :
                /\ r.reply = "PleaseRegister"
                /\ r.users = users
                /\ r.time_entries = time_entries
                /\ r.key_order = key_order

\* an unregistered caller asks for a report while the ledger holds entries
C9_Witness ==
    \E u \in UserIds, v \in UserIds :
        /\ ~Registered(u)
        /\ HasEntries(v)
        /\ report_res(u, <<>>).reply = "PleaseRegister"

\* C10: a user record, once created, is never deleted and changes only by
\* toggle_role and set_timezone; in particular another register of the same
\* user leaves timezone, is_admin and is_employee as they were.
C10_UserRecordChangesOnlyByToggleOrTimezone ==
    [][ \A u \in DOMAIN users :
            /\ u \in DOMAIN users'
            /\ users'[u] # users[u] =>
                    \/ toggle_employee_status(u)
                    \/ \E a \in TimezoneArgLists : set_timezone(u, a)
      ]_vars

\* C11: a registered caller who is not an admin is refused by every admin-only
\* operation (team report, toggle of the role, clearing all entries, forced
\* clearing, idle check) in every chat type, and the refused call leaves the
\* user table, the caller's is_admin included, and the ledger as they were.
C11_NonAdminIsDeniedEverywhere ==
    \A u \in UserIds :
        (Registered(u) /\ ~users[u].is_admin) =>
            \A r \in {team_report_res(u, a) : a \in ArgLists}
                        \cup {toggle_employee_status_res(u)}
                        \cup {check_idle_command_res(u, f) : f \in DeliveryFailures}
                        \cup {clear_logs_res(u, c) : c \in ChatTypes}
                        \cup {force_clear_logs_res(u, c) : c \in ChatTypes} :
                /\ r.reply = "AdminsOnly"
                /\ r.users = users
                /\ r.time_entries = time_entries

\* the dates a report can be asked for
ReportDates == {strptime(d) : d \in ValidDateTexts}

\* the lines of a report have one for the entry
Shows(lines, entry, tz) ==
    \E k \in DOMAIN lines : lines[k] = display_entry(entry, tz)

\* C12: the report of a user has a line for a closed entry exactly when the
\* entry's in_time, read in that user's timezone, falls on a day from
\* start_date to end_date: in_time at 00:00:00 of start_date is included, the
\* instant before it is not; in_time at the last instant of end_date is
\* included, the instant after it is not.
C12_ClosedEntryShownIffInLocalRange ==
    \A u \in UserIds, start_date \in ReportDates, end_date \in ReportDates :
        LET tz == users[u].timezone
            lines == report_text(u, start_date, end_date).entries_in_range
        IN  \A i \in 1..Len(Entries(u)) :
                LET entry == Entries(u)[i]
                    local == astimezone(tz, entry.in_time)
                    shown == Shows(lines, entry, tz)
                IN  ~IsNone(entry.out_time) =>
                        /\ shown <=> /\ start_date * SecondsPerDay <= local
                                     /\ local < (end_date + 1) * SecondsPerDay
                        /\ local = start_date * SecondsPerDay /\ start_date <= end_date
                            => shown
                        /\ local = start_date * SecondsPerDay - 1 => ~shown
                        /\ local = (end_date + 1) * SecondsPerDay - 1
                                /\ start_date <= end_date
                            => shown
                        /\ local = (end_date + 1) * SecondsPerDay => ~shown

\* a user has a closed entry at local midnight of a day and one a second
\* before it; the report of that day shows the first and not the second
C12_Witness ==
    \E u \in UserIds, d \in ReportDates :
        LET tz == users[u].timezone
            lines == report_text(u, d, d).entries_in_range
        IN  \E i, j \in 1..Len(Entries(u)) :
                LET a == Entries(u)[i]
                    b == Entries(u)[j]
                IN  /\ ~IsNone(a.out_time) /\ ~IsNone(b.out_time)
                    /\ astimezone(tz, a.in_time) = d * SecondsPerDay
                    /\ b.in_time = a.in_time - 1
                    /\ Shows(lines, a, tz)
                    /\ ~Shows(lines, b, tz)

\* the instant falls, in the zone, on a day from start_date to end_date
InLocalRange(tz, t, start_date, end_date) ==
    /\ start_date * SecondsPerDay <= astimezone(tz, t)
    /\ astimezone(tz, t) < (end_date + 1) * SecondsPerDay

\* the positions of the entries a report is to include: in range, and closed
\* or the last of the list
Included(entries, tz, start_date, end_date) ==
    {i \in 1..Len(entries) :
        /\ InLocalRange(tz, entries[i].in_time, start_date, end_date)
        /\ ~IsNone(entries[i].out_time) \/ i = Len(entries)}

RECURSIVE SumDurations(_, _)
SumDurations(entries, S) ==
    IF S = {} THEN 0
    ELSE LET i == CHOOSE j \in S : TRUE
         IN  duration(entries[i]) + SumDurations(entries, S \ {i})

\* C13: an entry without out_time is in the report only when it is the last
\* entry of the target's list (and in range); an earlier entry without
\* out_time gives the report neither a line nor seconds.
C13_EarlierOpenEntryIsSkipped ==
    \A u \in UserIds, start_date \in ReportDates, end_date \in ReportDates :
        LET tz == users[u].timezone
            entries == Entries(u)
            view == report_text(u, start_date, end_date)
            included == Included(entries, tz, start_date, end_date)
        IN  /\ Len(view.entries_in_range) = Cardinality(included)
            /\ view.total_seconds = SumDurations(entries, included)
            /\ \A k \in DOMAIN view.entries_in_range :
                    IsNone(view.entries_in_range[k].out) =>
                        /\ IsNone(Last(entries).out_time)
                        /\ view.entries_in_range[k] = display_entry(Last(entries), tz)

\* the line shows the entry, with the entry's whole duration
LineOf(line, entry, tz) ==
    /\ line.in = strftime_time(tz, entry.in_time)
    /\ line.date = strftime_date(tz, entry.in_time)
    /\ IsNone(line.out) <=> IsNone(entry.out_time)
    /\ line.seconds = IF IsNone(entry.out_time) THEN now - entry.in_time
                      ELSE Val(entry.out_time) - entry.in_time

\* C14: the total of a report is the sum, over the entries it includes, of
\* out_time - in_time for a closed entry and now - in_time for the active one;
\* a closed entry whose in_time is in range counts with its whole duration,
\* also when its out_time lies after the end of the range.
C14_TotalIsSumOfWholeDurations ==
    \A u \in UserIds, start_date \in ReportDates, end_date \in ReportDates :
        LET tz == users[u].timezone
            entries == Entries(u)
            view == report_text(u, start_date, end_date)
            lines == view.entries_in_range
        IN  /\ view.total_seconds = SumSeconds(lines)
            /\ \A k \in DOMAIN lines :
                    \E i \in 1..Len(entries) : LineOf(lines[k], entries[i], tz)
            /\ \A i \in 1..Len(entries) :
                    (/\ ~IsNone(entries[i].out_time)
                     /\ InLocalRange(tz, entries[i].in_time, start_date, end_date))
                        => /\ \E k \in DOMAIN lines : LineOf(lines[k], entries[i], tz)
                           /\ view.total_seconds >= Val(entries[i].out_time) - entries[i].in_time

\* a one-day report whose only entry was closed after the day had ended, and
\* whose total is the whole length of that entry
C14_Witness ==
    \E u \in UserIds, d \in ReportDates :
        LET tz == users[u].timezone
            entries == Entries(u)
            view == report_text(u, d, d)
        IN  /\ Len(entries) = 1
            /\ ~IsNone(entries[1].out_time)
            /\ InLocalRange(tz, entries[1].in_time, d, d)
            /\ Val(entries[1].out_time) > end_datetime(tz, d)
            /\ Val(entries[1].out_time) > entries[1].in_time
            /\ view.total_seconds = Val(entries[1].out_time) - entries[1].in_time

\* a can be had from b by leaving elements out
RECURSIVE IsSubSeq(_, _)
IsSubSeq(a, b) ==
    IF a = <<>> THEN TRUE
    ELSE IF b = <<>> THEN FALSE
    ELSE IF Head(a) = Head(b) THEN IsSubSeq(Tail(a), Tail(b))
    ELSE IsSubSeq(a, Tail(b))

RECURSIVE SumTotals(_)
SumTotals(groups) ==
    IF groups = <<>> THEN 0 ELSE Head(groups).date_total + SumTotals(Tail(groups))

RECURSIVE SumSizes(_)
SumSizes(groups) ==
    IF groups = <<>> THEN 0 ELSE Len(Head(groups).entries) + SumSizes(Tail(groups))

\* C15: every entry a report includes stands in exactly one group, the group
\* of the calendar date of its in_time in the target's timezone; the groups
\* come in ascending order of date; inside a group the entries keep the order
\* of the ledger; the subtotal of a group is the sum of its entries' hours
\* and the subtotals add up to the total of the report.
C15_GroupsByLocalDateAscending ==
    \A u \in UserIds, start_date \in ReportDates, end_date \in ReportDates :
        LET tz == users[u].timezone
            entries == Entries(u)
            view == report_text(u, start_date, end_date)
            lines == view.entries_in_range
            groups == view.groups
            ledger == [i \in 1..Len(entries) |-> display_entry(entries[i], tz)]
        IN  /\ SumSizes(groups) = Len(lines)
            /\ \A k \in DOMAIN lines :
                    Cardinality({g \in DOMAIN groups :
                        \E j \in DOMAIN groups[g].entries :
                            groups[g].entries[j] = lines[k]}) = 1
            /\ \A g \in DOMAIN groups :
                    /\ groups[g].entries # <<>>
                    /\ \A j \in DOMAIN groups[g].entries :
                        \E i \in 1..Len(entries) :
                            /\ groups[g].entries[j] = ledger[i]
                            /\ astimezone(tz, entries[i].in_time) \div SecondsPerDay
                                    = groups[g].date
                    /\ IsSubSeq(groups[g].entries, ledger)
                    /\ groups[g].date_total = SumSeconds(groups[g].entries)
            /\ \A g, h \in DOMAIN groups : g < h => groups[g].date < groups[h].date
            /\ SumTotals(groups) = view.total_seconds

\* a report with two groups whose entries stand in the ledger in the other
\* order, the later date first
C15_Witness ==
    \E u \in UserIds, start_date \in ReportDates, end_date \in ReportDates :
        LET tz == users[u].timezone
            entries == Entries(u)
            groups == report_text(u, start_date, end_date).groups
        IN  /\ Len(entries) = 2
            /\ Len(groups) = 2
            /\ groups[1].entries = <<display_entry(entries[2], tz)>>
            /\ groups[2].entries = <<display_entry(entries[1], tz)>>
            /\ groups[1].date < groups[2].date

\* C16: when no entry of the user matches the date range, the report is the
\* "no entries" text and never a report with a total of zero; when at least
\* one entry matches, it is the grouped entries with a total.
C16_NoMatchGivesNoEntriesText ==
    \A u \in UserIds, args \in ReportArgLists :
        (Registered(u) /\ users[u].is_employee) =>
            LET r == report_res(u, args)
                included == Included(Entries(u), users[u].timezone,
                                     DateRange(args)[1], DateRange(args)[2])
            IN  IF included = {}
                THEN \/ r.reply = "NoEntries"
                     \/ /\ r.reply = "Report"
                        /\ r.out.kind = "NoEntriesInPeriod"
                        /\ r.out.groups = <<>>
                ELSE /\ r.reply = "Report"
                     /\ r.out.kind = "Entries"
                     /\ r.out.groups # <<>>
                     /\ r.out.total_seconds = SumSeconds(r.out.entries_in_range)

\* a user whose entries all lie outside one range and inside another: the
\* first report is the "no entries" text, the second has a group
C16_Witness ==
    \E u \in UserIds, a \in ReportArgLists, b \in ReportArgLists :
        /\ Registered(u) /\ users[u].is_employee
        /\ HasEntries(u)
        /\ report_res(u, a).reply = "Report"
        /\ report_res(u, a).out.kind = "NoEntriesInPeriod"
        /\ report_res(u, b).reply = "Report"
        /\ report_res(u, b).out.kind = "Entries"
        /\ Len(report_res(u, b).out.groups) >= 1

\* C17: a report asked with a date text that is not a date fails with the
\* invalid-date answer whatever the ledger holds, also when the user has no
\* entry at all.
C17_InvalidDateIsRejectedFirst ==
    \A u \in UserIds, args \in ArgLists :
        (/\ Registered(u)
         /\ users[u].is_employee \/ users[u].is_admin
         /\ ArgsInvalid(args))
            => report_res(u, args).reply = "InvalidDateFormat"

\* C18: for a user whose ledger is one open entry clocked in today, on the
\* user's calendar, the report asked without dates has exactly one group with
\* one entry, marked active, whose hours are now - in_time; this holds for
\* every timezone the user can have.
C18_TodayReportShowsTheActiveSession ==
    \A u \in UserIds :
        (/\ Tracked(u)
         /\ Len(Entries(u)) = 1
         /\ IsNone(Entries(u)[1].out_time)
         /\ strftime_date(users[u].timezone, Entries(u)[1].in_time)
                = strftime_date(users[u].timezone, now))
            => LET r == report_res(u, <<>>)
               IN  /\ r.reply = "Report"
                   /\ r.out.kind = "Entries"
                   /\ Len(r.out.groups) = 1
                   /\ Len(r.out.groups[1].entries) = 1
                   /\ IsNone(r.out.groups[1].entries[1].out)
                   /\ r.out.groups[1].entries[1].seconds = now - Entries(u)[1].in_time

\* the place of x in the sequence
Pos(seq, x) == CHOOSE i \in DOMAIN seq : seq[i] = x

\* the seconds of an employee's entries that lie in the range of the team
\* report the admin asks for
SecondsInRange(admin, emp, start_date, end_date) ==
    SumDurations(Entries(emp),
                 Included(Entries(emp), users[admin].timezone, start_date, end_date))

\* C19: the team report lists exactly the employees whose seconds in range
\* are more than zero, in descending order of hours; employees with the same
\* hours stand in the order in which the ledger holds them.
C19_TeamListsWorkersByHoursDescending ==
    \A admin \in UserIds, args \in ReportArgLists :
        (Registered(admin) /\ users[admin].is_admin /\ ~ArgsInvalid(args)) =>
            LET r == team_report_res(admin, args)
                stats == r.out.employee_stats
                listed == {stats[k].user_id : k \in DOMAIN stats}
            IN  /\ r.reply = "TeamReport"
                /\ listed = {emp \in DOMAIN users :
                                /\ users[emp].is_employee
                                /\ SecondsInRange(admin, emp, DateRange(args)[1],
                                                  DateRange(args)[2]) > 0}
                /\ Len(stats) = Cardinality(listed)
                /\ \A k, l \in DOMAIN stats :
                        k < l =>
                            /\ stats[k].seconds >= stats[l].seconds
                            /\ stats[k].seconds = stats[l].seconds
                                => Pos(key_order, stats[k].user_id)
                                        < Pos(key_order, stats[l].user_id)

\* a team report of two employees in which the one the ledger holds second
\* has more hours and stands first
C19_Witness ==
    \E admin \in UserIds, args \in ReportArgLists :
        /\ Registered(admin) /\ users[admin].is_admin /\ ~ArgsInvalid(args)
        /\ LET stats == team_report_res(admin, args).out.employee_stats
           IN  /\ Len(stats) = 2
               /\ stats[1].seconds > stats[2].seconds
               /\ Pos(key_order, stats[1].user_id) > Pos(key_order, stats[2].user_id)

\* C20: for every employee, the hours and the number of entries the team
\* report gives over a date range are those of the employee's own report
\* over the same dates, whatever the timezones of the admin and the employee.
C20_TeamTotalsEqualEmployeeReport ==
    \A admin \in UserIds, emp \in UserIds, args \in ArgLists :
        (/\ Registered(admin) /\ users[admin].is_admin
         /\ Registered(emp) /\ users[emp].is_employee /\ HasEntries(emp)
         /\ ~ArgsInvalid(args))
            => LET stats == team_report_res(admin, args).out.employee_stats
                   own == report_text(emp, DateRange(args)[1], DateRange(args)[2])
               IN  IF \E k \in DOMAIN stats : stats[k].user_id = emp
                   THEN \A k \in DOMAIN stats :
                            stats[k].user_id = emp =>
                                /\ stats[k].seconds = own.total_seconds
                                /\ stats[k].entries = Len(own.entries_in_range)
                   ELSE own.total_seconds = 0

\* C21: a user listed in the team report is marked active exactly when the
\* last entry of the user's whole list is open, whether or not that entry
\* lies in the date range of the report.
C21_ActiveMarkFollowsLastEntry ==
    \A admin \in UserIds, args \in ReportArgLists :
        (Registered(admin) /\ users[admin].is_admin /\ ~ArgsInvalid(args)) =>
            LET stats == team_report_res(admin, args).out.employee_stats
            IN  \A k \in DOMAIN stats :
                    stats[k].active <=> LastOpen(stats[k].user_id)

\* a listed user marked active whose open last entry lies outside the range
\* of the report
C21_Witness ==
    \E admin \in UserIds, args \in ReportArgLists :
        /\ Registered(admin) /\ users[admin].is_admin /\ ~ArgsInvalid(args)
        /\ LET stats == team_report_res(admin, args).out.employee_stats
           IN  \E k \in DOMAIN stats :
                /\ stats[k].active
                /\ LastOpen(stats[k].user_id)
                /\ ~InLocalRange(users[admin].timezone,
                                 Last(Entries(stats[k].user_id)).in_time,
                                 DateRange(args)[1], DateRange(args)[2])

\* the user's last entry is open and has been open for more than twelve
\* hours at the instant t
OpenTooLong(te, u, t) ==
    /\ u \in DOMAIN te
    /\ te[u] # <<>>
    /\ IsNone(Last(te[u]).out_time)
    /\ t - Last(te[u]).in_time > IdleThresholdHours * SecondsPerHour

\* the number of reminders of the scan that are sent to u
Reminders(out, u) == Cardinality({k \in DOMAIN out : out[k].user_id = u /\ out[k].attempted})

\* C22: every idle scan sends exactly one reminder to each user whose last
\* entry is open and has been open for more than twelve hours, and none to
\* any other user; the scan keeps no memory, so a scan that follows at once
\* or after the clock has moved on reminds each of these users again.
C22_EachScanRemindsEveryIdleUser ==
    \A failing \in DeliveryFailures :
        LET r == check_idle_users_res(failing)
        IN  /\ \A u \in UserIds :
                Reminders(r.out, u) = IF OpenTooLong(time_entries, u, now) THEN 1 ELSE 0
            /\ \A k \in DOMAIN r.out :
                r.out[k].delivered <=> r.out[k].user_id \notin failing
            /\ \A d \in {0} \cup Deltas, again \in DeliveryFailures :
                LET later == idle_reminders(r.users, r.time_entries, now + d, r.key_order, again)
                IN  \A u \in UserIds :
                        OpenTooLong(time_entries, u, now) => Reminders(later, u) = 1

\* one session open for thirteen hours and one open for eleven: the scan
\* sends one reminder, to the user of the first
C22_Witness ==
    \E u, v \in UserIds :
        /\ LastOpen(u) /\ now - Last(Entries(u)).in_time = (IdleThresholdHours + 1) * SecondsPerHour
        /\ LastOpen(v) /\ now - Last(Entries(v)).in_time = (IdleThresholdHours - 1) * SecondsPerHour
        /\ Len(check_idle_users_res({}).out) = 1
        /\ check_idle_users_res({}).out[1].user_id = u
        /\ check_idle_users_res({}).out[1].delivered

\* the results of the scans that can run now: the hourly job and the /checkidle
\* of every caller, under every set of failing deliveries
ScanResults ==
    {check_idle_users_res(f) : f \in DeliveryFailures}
        \cup {check_idle_command_res(u, f) : u \in UserIds, f \in DeliveryFailures}

\* C23: an idle scan, run by the timer or by an admin's /checkidle, leaves
\* the ledger and the user table as they were; the session of every user it
\* reminds is still open after the scan.
C23_ScanClocksNobodyOut ==
    \A r \in ScanResults :
        /\ r.time_entries = time_entries
        /\ r.users = users
        /\ r.key_order = key_order
        /\ r.entries_file = entries_file
        /\ r.users_file = users_file
        /\ \A k \in DOMAIN r.out :
            /\ r.time_entries[r.out[k].user_id] # <<>>
            /\ IsNone(Last(r.time_entries[r.out[k].user_id]).out_time)

\* an admin's /checkidle has reminded a user whose session is idle
C23_Witness ==
    \E admin \in UserIds, u \in UserIds :
        /\ Registered(admin) /\ users[admin].is_admin
        /\ OpenTooLong(time_entries, u, now)
        /\ LET r == check_idle_command_res(admin, {})
           IN  /\ r.reply = "IdleCheckCompleted"
               /\ \E k \in DOMAIN r.out : r.out[k].user_id = u /\ r.out[k].delivered
               /\ IsNone(Last(r.time_entries[u]).out_time)

\* the users of the reminders of a scan, in the order of the scan
Recipients(out) == [k \in DOMAIN out |-> out[k].user_id]

\* C24: a delivery that fails for one user does not end the scan: the scan
\* goes on to the same users as a scan without failures, and every idle user
\* whose delivery does not fail receives the reminder.
C24_FailedDeliveryDoesNotAbortTheScan ==
    \A failing \in DeliveryFailures :
        LET out == check_idle_users_res(failing).out
        IN  /\ Recipients(out) = Recipients(check_idle_users_res({}).out)
            /\ \A u \in UserIds \ failing :
                OpenTooLong(time_entries, u, now) =>
                    \E k \in DOMAIN out : out[k].user_id = u /\ out[k].delivered

\* two idle users: the delivery to the first of the scan fails and the
\* second receives the reminder
C24_Witness ==
    \E failing \in DeliveryFailures :
        LET out == check_idle_users_res(failing).out
        IN  /\ Len(out) = 2
            /\ out[1].attempted /\ ~out[1].delivered
            /\ out[2].delivered

\* the positions of the entries status counts for today: begun at or after
\* 00:00 UTC of the current UTC day, and closed or the last of the list
CountedToday(entries) ==
    {i \in DOMAIN entries :
        /\ entries[i].in_time >= now - (now % SecondsPerDay)
        /\ ~IsNone(entries[i].out_time) \/ i = Len(entries)}

\* what the claim says of the status of u
StatusAsClaimed(u) ==
    LET r == status_res(u)
    IN  /\ r.reply = "StatusClockedIn" <=> LastOpen(u)
        /\ r.reply \in {"StatusClockedIn", "StatusClockedOut"} =>
                r.out.today_total_seconds = SumDurations(Entries(u), CountedToday(Entries(u)))
        /\ r.time_entries = time_entries
        /\ r.entries_file = entries_file

\* C25 as stated: for every registered user status reports CLOCKED IN exactly
\* when the user's last entry is open, totals for today the entries begun at
\* or after midnight UTC of the current UTC day, and leaves the ledger alone.
C25_StatusOfEveryRegisteredUser ==
    \A u \in UserIds : Registered(u) => StatusAsClaimed(u)

\* C25, amended: the same for every registered user who is not an exempt
\* admin; an exempt admin is answered with the admin notice whatever the
\* ledger holds.
C25_StatusOfTrackedUser ==
    /\ \A u \in UserIds : Tracked(u) => StatusAsClaimed(u)
    /\ \A u \in UserIds :
        (Registered(u) /\ Exempt(u)) =>
            /\ status_res(u).reply = "AdminMode"
            /\ status_res(u).time_entries = time_entries

\* a tracked user in a zone east of UTC is clocked in today and has a closed
\* entry that began before midnight UTC but on today's date of the user's
\* zone: the total for today is the running time of the open session alone
C25_Witness ==
    \E u \in UserIds :
        /\ Tracked(u) /\ LastOpen(u)
        /\ Last(Entries(u)).in_time >= today_start
        /\ \E i \in DOMAIN Entries(u) :
            /\ ~IsNone(Entries(u)[i].out_time)
            /\ Entries(u)[i].in_time < today_start
            /\ astimezone(users[u].timezone, Entries(u)[i].in_time) >= today_start
        /\ status_res(u).reply = "StatusClockedIn"
        /\ status_res(u).out.today_total_seconds = now - Last(Entries(u)).in_time

\* the tables load_data() builds from the files save_data() writes now
Reloaded ==
    LET saved == save_data(Here)
    IN  load_data(saved.users_file, saved.entries_file)

\* C26: writing the user table and the ledger with save_data and reading the
\* files back with load_data gives the same tables: the same user ids with
\* the same records, the same keys of the ledger in the same order, and for
\* every user the same entries in the same order, each with its in_time and
\* its out_time, an absent out_time being absent again.
C26_SaveThenLoadIsLossless ==
    /\ Reloaded.users = users
    /\ DOMAIN Reloaded.time_entries = DOMAIN time_entries
    /\ Reloaded.key_order = key_order
    /\ \A u \in DOMAIN time_entries :
        /\ Len(Reloaded.time_entries[u]) = Len(time_entries[u])
        /\ \A i \in DOMAIN time_entries[u] :
            /\ Reloaded.time_entries[u][i].in_time = time_entries[u][i].in_time
            /\ Reloaded.time_entries[u][i].out_time = time_entries[u][i].out_time

\* the ledger holds a closed entry that began on the day before day 0,
\* written to the file as that day and a time of day, and an open entry,
\* and the files read back with both
C26_Witness ==
    /\ \E u \in DOMAIN time_entries : \E i \in DOMAIN time_entries[u] :
        /\ time_entries[u][i].in_time < 0
        /\ ~IsNone(time_entries[u][i].out_time)
        /\ Reloaded.time_entries[u][i] = time_entries[u][i]
        /\ Val(SerializeEntry(time_entries[u][i]).in_time) = <<-1, time_entries[u][i].in_time + SecondsPerDay>>
    /\ \E u \in DOMAIN time_entries :
        /\ LastOpen(u)
        /\ IsNone(Last(Reloaded.time_entries[u]).out_time)

\* C27: the toggle of the role changes the caller's is_employee flag and
\* nothing else: the rest of the caller's record, the records of the other
\* users and every entry of every user stay as they were, so an admin back
\* in admin mode still has the session opened in employee mode.
C27_ToggleChangesOnlyTheRoleFlag ==
    \A u \in UserIds :
        LET r == toggle_employee_status_res(u)
        IN  /\ r.time_entries = time_entries
            /\ r.key_order = key_order
            /\ DOMAIN r.users = DOMAIN users
            /\ \A v \in DOMAIN users :
                /\ r.users[v].timezone = users[v].timezone
                /\ r.users[v].is_admin = users[v].is_admin
                /\ v # u => r.users[v] = users[v]
            /\ r.reply \in {"EmployeeMode", "AdminMode"} =>
                r.users[u].is_employee = ~users[u].is_employee

\* an admin in employee mode with an open session: the toggle answers with
\* the admin mode and the session is still open, with the same in_time
C27_Witness ==
    \E u \in UserIds :
        /\ Registered(u) /\ users[u].is_admin /\ users[u].is_employee
        /\ LastOpen(u)
        /\ LET r == toggle_employee_status_res(u)
           IN  /\ r.reply = "AdminMode"
               /\ ~r.users[u].is_employee
               /\ Last(r.time_entries[u]) = Last(time_entries[u])
               /\ IsNone(Last(r.time_entries[u]).out_time)

\* C28: after every handler has returned, the tables load_data() would build
\* from users.json and time_entries.json are the user table and the ledger
\* in memory; a missing file reads as an empty table.
C28_FilesHoldTheTables ==
    LET loaded == load_data(users_file, entries_file)
    IN  /\ loaded.users = users
        /\ loaded.time_entries = time_entries
        /\ loaded.key_order = key_order

\* /forceclear has removed time_entries.json while users are registered: the
\* ledger in memory is empty, as the missing file reads
C28_Witness ==
    /\ IsNone(entries_file)
    /\ ~IsNone(users_file)
    /\ \E u \in UserIds : Registered(u)
    /\ time_entries = <<>>
    /\ load_data(users_file, entries_file).time_entries = <<>>

\* the results of the ways an admin can resolve a pending confirmation: the
\* two buttons of the prompt and the texts that confirm or cancel
Resolutions(u) ==
    {button_handler_res(u, b, c) :
        b \in {"confirm_clear_logs", "cancel_clear_logs"}, c \in ChatTypes}
        \cup {handle_text_confirmation_res(u, t) : t \in YesTexts \cup NoTexts}

\* C29: one resolution of a pending confirmation of /clearlogs, by button or
\* by text, to confirm or to cancel, consumes it: no confirmation is pending
\* afterwards, so a later "yes" or a later /clearlogs finds nothing to
\* confirm and deletes nothing without a new prompt.
C29_ResolutionConsumesTheConfirmation ==
    \A u \in UserIds :
        (Registered(u) /\ users[u].is_admin /\ confirm_clear[u]) =>
            \A r \in Resolutions(u) : ~r.confirm_clear[u]

\* C30: in every reachable state the entries of each user are in the order
\* of time: a closed entry ends no earlier than it began, every entry but
\* the last is closed, and each entry begins no earlier than the one before
\* it ended, so no two sessions of a user overlap.
C30_EntriesAreChronological ==
    \A u \in DOMAIN time_entries :
        \A i \in DOMAIN time_entries[u] :
            LET entry == time_entries[u][i]
            IN  /\ ~IsNone(entry.out_time) => entry.in_time <= Val(entry.out_time)
                /\ i > 1 =>
                    /\ ~IsNone(time_entries[u][i - 1].out_time)
                    /\ entry.in_time >= Val(time_entries[u][i - 1].out_time)

\* a user clocked out later than the clock-in and has clocked in again
C30_Witness ==
    \E u \in DOMAIN time_entries :
        /\ Len(time_entries[u]) = 2
        /\ ~IsNone(time_entries[u][1].out_time)
        /\ time_entries[u][1].in_time < Val(time_entries[u][1].out_time)
        /\ time_entries[u][2].in_time >= Val(time_entries[u][1].out_time)

\* every entry of every user but the last one is closed
OneOpenEntryAndItIsLast(te) ==
    \A u \in DOMAIN te :
        \A i \in 1..(Len(te[u]) - 1) : ~IsNone(te[u][i].out_time)

\* a step that makes the list of u longer starts where the last entry of u
\* is not open, and a step that gives an entry an out_time starts where that
\* entry had none
WritesAfterItsCheck ==
    \A u \in DOMAIN time_entries' :
        /\ Len(time_entries'[u]) > Len(Entries(u)) => ~LastOpen(u)
        /\ \A i \in DOMAIN time_entries'[u] :
            (/\ i <= Len(Entries(u))
             /\ time_entries'[u][i] # Entries(u)[i]) =>
                /\ IsNone(Entries(u)[i].out_time)
                /\ i = Len(Entries(u))

\* C31: when handlers interleave at the awaits of their replies only, the
\* check and the append of clock_in are one step, and so are the check and
\* the close of clock_out: of two clock_in commands of a user in flight
\* together only one appends, of two clock_out commands only one sets the
\* out_time, and at all times every entry but the last is closed.
C31_InterleavedHandlersKeepOneOpenEntry ==
    /\ [](OneOpenEntryAndItIsLast(time_entries))
    /\ [][WritesAfterItsCheck]_vars

\* two clock_in commands of one user are in flight together: one has
\* appended the open entry and the other has been refused
C31_Witness ==
    \E u \in UserIds, i \in 1..MaxEntries :
        /\ BagIn([handler |-> "clock_in", user |-> u, reply |-> "ClockedIn", index |-> i], inflight)
        /\ BagIn([handler |-> "clock_in", user |-> u, reply |-> "AlreadyClockedIn", index |-> 0], inflight)
        /\ LastOpen(u)
        /\ Len(time_entries[u]) = i

\* the scan has ended with the RuntimeError of its iterator
Aborted == ~IsNone(scan) /\ Val(scan).status = "RuntimeError"

\* the position the scan has reached in the dict it iterates
Reached(sc) == IF ~IsNone(sc) /\ Val(sc).status = "sending" THEN Val(sc).pos ELSE 0

\* A step in which the scan goes on, to its next reminder or to its end:
\* the user it reminds has, in the ledger as it is now, a last entry open
\* for more than twelve hours, and no user with such an entry whose key
\* comes after the place the scan had reached is passed over.
ScanDecidesFromTheLedger ==
    (/\ ~IsNone(scan') => Val(scan').status # "RuntimeError"
     /\ IsNone(scan') \/ Val(scan').pos # Reached(scan)
     /\ scan' # scan) =>
        LET reminded == IF IsNone(scan') THEN {}
                        ELSE {IterKeys(Val(scan'))[Val(scan').pos]}
            passed == IF IsNone(scan') THEN Len(key_order)
                      ELSE Val(scan').pos - 1
        IN  /\ \A u \in reminded : OpenTooLong(time_entries, u, now)
            /\ \A k \in DOMAIN key_order :
                (k > Reached(scan) /\ k <= passed) =>
                    ~OpenTooLong(time_entries, key_order[k], now)

\* C32: an idle scan suspended at a send_message while handlers run (a first
\* clock_in that adds a key to the ledger, a clock_out, a /forceclear that
\* replaces the ledger) completes its pass and decides for every user from
\* the ledger as it is when it comes to that user: it does not abort, passes
\* over no user who is idle, and reminds no user whose session has been
\* closed or deleted.
C32_SuspendedScanCompletesOnTheLedger ==
    /\ [](~Aborted)
    /\ [][ScanDecidesFromTheLedger]_vars

\* C33: whenever a registered user has an open last entry, the user's own
\* clock_out closes it, whatever the user's role flags are.
C33_OwnClockOutClosesAnOpenSession ==
    \A u \in UserIds :
        (Registered(u) /\ LastOpen(u)) =>
            LET r == clock_out_res(u)
            IN  /\ r.reply = "ClockedOut"
                /\ ~IsNone(Last(r.time_entries[u]).out_time)

\* C34: in every reachable state every registered user is an admin or an
\* employee, a user who is not an admin is an employee, and no report is
\* refused with the text that only employees can access reports.
C34_EveryUserIsAdminOrEmployee ==
    \A u \in DOMAIN users :
        /\ users[u].is_admin \/ users[u].is_employee
        /\ ~users[u].is_admin => users[u].is_employee
        /\ \A args \in ArgLists : report_res(u, args).reply # "OnlyEmployees"

\* an admin in admin mode who holds an entry from a time in employee mode,
\* beside a user who is not an admin
C34_Witness ==
    \E u, v \in DOMAIN users :
        /\ users[u].is_admin /\ ~users[u].is_employee /\ HasEntries(u)
        /\ ~users[v].is_admin /\ users[v].is_employee
        /\ \A args \in ArgLists : report_res(v, args).reply # "OnlyEmployees"
====
